---- MODULE Spec2Model ----
(***************************************************************************)
(* Model of resource_mon.py: the ResourceMonitor run loop (Start/Stop),    *)
(* the CPU and disk counter readers, the delta step and the rate           *)
(* derivations.                                                            *)
(*                                                                         *)
(* Text is a sequence of one-character strings.  A float is an exact       *)
(* rational <<num, den>> in lowest terms, or inf, -inf or nan; IEEE        *)
(* rounding of the last bit and the overflow of a finite value to inf are  *)
(* not represented, and the counters read stay below 2^31.  An uncaught    *)
(* Python exception ends the process: pc = "crashed", err names the        *)
(* exception.  The clock counts ticks of 1/TicksPerSec second.             *)
(***************************************************************************)
EXTENDS Integers, Sequences, FiniteSets, TLC

\* ---------------------------------------------------------------- bounds
\* Clock resolution: ticks per second.
TicksPerSec == 2
\* The clock reading at process start is any tick in 0..MaxStart.
MaxStart == 1
\* A sleep lasts the requested time plus 0..MaxJitter ticks.
MaxJitter == 1

\* ---------------------------------------------------- program constants
SAMPLE_INTERVAL == 2
RUN_TIME == 60
LOOP_SLEEP == 2
DISKS_TO_MONITOR == {<<"s","d","a">>}

\* ------------------------------------------------ counter-source contents
\* The vertical tab, which TLA+ has no escape for.
VT == ""

\* First line of the CPU counter source, as readline() returns it.
CpuLines ==
  << <<"c","p","u"," "," ","1","0","0"," ","0"," ","0"," ","3","0","0"," ","0"," ","0"," ","0","\n">>,
     <<"c","p","u"," "," ","1","1","0"," ","0"," ","0"," ","3","2","0"," ","0"," ","0"," ","0","\n">>,
     <<"c","p","u"," "," ","1","1","0"," ","0"," ","0"," ","3","9","0"," ","5"," ","0"," ","0","\n">>,
     <<"c","p","u"," "," ","9","5"," ","5"," ","0"," ","3","0","0"," ","0"," ","0"," ","0","\n">>,
     <<"c","p","u"," "," ","1"," ","2"," ","3","\n">>,
     <<"c","p","u"," "," ","1"," ","x"," ","3"," ","4","\n">>,
     <<"c","p","u"," ","5"," ","1","0","0"," ","0"," ","0"," ","3","0","0","\n">>,
     <<"c","p","u"," "," ","\f","1","0","0"," ","0"," ","0"," ","3","0","0","\r","\n">>,
     <<"c","p","u"," "," ","+","1","1","0"," ","0"," ","0"," ","+","\t","3","2","0",VT,"\n">>,
     <<"c","p","u"," "," ","1"," ","2"," ","3"," ","4",".","0","\n">>,
     <<>> >>

\* Lines of the disk counter source, as iterating the file yields them.
DiskBlobs ==
  << << <<"8",VT,"0","\f","s","d","b","\t","9"," ","0"," ","8"," ","1","0","0"," ","7"," ","0"," ","8"," ","1","0","0"," ","0"," ","0"," ","0","\r","\n">>,
        <<"8"," ","0"," ","s","d","a"," ","9"," ","0"," ","2","5","6"," ","2","0","0","0"," ","7"," ","0"," ","1","2","8"," ","1","0","0","0"," ","0"," ","0"," ","0","\n">> >>,
     << <<"8"," ","0"," ","s","d","a"," ","9"," ","0"," ","i","n","f"," ","4","0","0","0",".","0"," ","7"," ","0"," ","N","a","N"," ","8","e","3"," ","0"," ","0"," ","0","\n">>,
        <<" ","8"," ","0"," ","s","d","a"," ","9"," ","0"," ","7",".","6","8","e","2"," ","3","0","0","0","."," ","7"," ","0"," ","+","3","8","4"," ",".","1","E","+","4"," ","0"," ","0"," ","0","\r","\n">>,
        <<"8"," ","0"," ","s","d","b"," ","9"," ","0"," ","0"," ","0"," ","7"," ","0"," ","0"," ","0"," ","0"," ","0"," ","0","\n">> >>,
     << <<"8"," ","0"," ","s","d","a"," ","9"," ","0"," ","2","5","6"," ","-","I","n","f","i","n","i","t","y"," ","7"," ","0"," ","1","2","8"," ","-","0",".","0"," ","0"," ","0"," ","0","\n">> >>,
     << <<"8"," ","0"," ","s","d","b"," ","9"," ","0"," ","2","5","6"," ","2","0","0","0"," ","7"," ","0"," ","1","2","8"," ","1","0","0","0"," ","0"," ","0"," ","0","\n">> >>,
     << <<"8"," ","0"," ","s","d","a"," ","9"," ","0"," ","2","5","6"," ","0"," ","7"," ","0"," ","1","2","8"," ","1","0","0","0"," ","0"," ","0"," ","0","\n">> >>,
     << <<"8"," ","0"," ","s","d","a"," ","9"," ","0"," ","2","5","6"," ","2","0","0","0"," ","7"," ","0"," ","1","2","8"," ","0"," ","0"," ","0"," ","0","\n">> >>,
     << <<"8"," ","0"," ","s","d","a"," ","9"," ","0"," ","2","5","6"," ","2","0","0","0","\n">> >>,
     << <<"8"," ","0"," ","s","d","a"," ","9"," ","0"," ","2","5","6"," ","2","0","0","0"," ","7"," ","0"," ","1","2","8"," ","1","0","0","0"," ","0"," ","0"," ","0","\n">>,
        <<"\n">> >>,
     << <<"8"," ","0"," ","s","d","a"," ","9"," ","0"," ","1","e"," ","0"," ","7"," ","0"," ","1","2","8"," ","1","0","0","0"," ","0"," ","0"," ","0","\n">> >>,
     <<  >> >>

\* ------------------------------------------------------------- text
\* The characters str.split(), int() and float() take for whitespace.
Whitespace == {" ", "\t", "\n", "\r", "\f", VT}
Digits == {"0","1","2","3","4","5","6","7","8","9"}

DigitVal(c) ==
  CASE c = "0" -> 0 [] c = "1" -> 1 [] c = "2" -> 2 [] c = "3" -> 3
    [] c = "4" -> 4 [] c = "5" -> 5 [] c = "6" -> 6 [] c = "7" -> 7
    [] c = "8" -> 8 [] c = "9" -> 9

RECURSIVE SplitSpaceFrom(_, _, _, _)
SplitSpaceFrom(s, i, cur, acc) ==
  IF i > Len(s) THEN Append(acc, cur)
  ELSE IF s[i] = " " THEN SplitSpaceFrom(s, i + 1, <<>>, Append(acc, cur))
  ELSE SplitSpaceFrom(s, i + 1, Append(cur, s[i]), acc)

\* str.split(' '): cut at every single space, empty fields kept.
SplitSpace(s) == SplitSpaceFrom(s, 1, <<>>, <<>>)

RECURSIVE SplitFieldsFrom(_, _, _, _)
SplitFieldsFrom(s, i, cur, acc) ==
  IF i > Len(s) THEN (IF cur = <<>> THEN acc ELSE Append(acc, cur))
  ELSE IF s[i] \in Whitespace
       THEN SplitFieldsFrom(s, i + 1, <<>>,
                            IF cur = <<>> THEN acc ELSE Append(acc, cur))
  ELSE SplitFieldsFrom(s, i + 1, Append(cur, s[i]), acc)

\* str.split(): cut at runs of whitespace, no empty fields.
SplitFields(s) == SplitFieldsFrom(s, 1, <<>>, <<>>)

\* Python slice seq[lo:hi] with 0-based bounds, truncated to the sequence.
Slice(seq, lo, hi) ==
  LET top == IF hi < Len(seq) THEN hi ELSE Len(seq)
  IN  IF top <= lo THEN <<>> ELSE [k \in 1..(top - lo) |-> seq[lo + k]]

RECURSIVE StripLeft(_)
StripLeft(s) ==
  IF s # <<>> /\ s[1] \in Whitespace THEN StripLeft(Tail(s)) ELSE s

RECURSIVE Strip(_)
Strip(s) ==
  IF s = <<>> THEN s
  ELSE IF s[1] \in Whitespace THEN Strip(Tail(s))
  ELSE IF s[Len(s)] \in Whitespace THEN Strip(SubSeq(s, 1, Len(s) - 1))
  ELSE s

RECURSIVE DigitsValue(_, _)
DigitsValue(s, acc) ==
  IF s = <<>> THEN acc ELSE DigitsValue(Tail(s), 10 * acc + DigitVal(s[1]))

AllDigits(s) == \A k \in 1..Len(s) : s[k] \in Digits

\* int(text), base 10, of Python 2: whitespace is skipped before the sign,
\* between the sign and the digits, and after the digits; at least one
\* digit, nothing else.  ok = FALSE stands for ValueError.
ParseInt(text) ==
  LET t == Strip(text)
      signed == t # <<>> /\ t[1] \in {"-", "+"}
      body == IF signed THEN StripLeft(Tail(t)) ELSE t
      good == body # <<>> /\ AllDigits(body)
  IN  IF ~good THEN [ok |-> FALSE, val |-> 0]
      ELSE [ok |-> TRUE,
            val |-> IF signed /\ t[1] = "-" THEN 0 - DigitsValue(body, 0)
                    ELSE DigitsValue(body, 0)]

\* ---------------------------------------------------------- floats
\* A float is <<num, den>>: a rational in lowest terms when den > 0,
\* <<1, 0>> for inf, <<-1, 0>> for -inf and <<0, 0>> for nan.
Abs(x) == IF x < 0 THEN 0 - x ELSE x
Sign(x) == IF x < 0 THEN 0 - 1 ELSE IF x > 0 THEN 1 ELSE 0

RECURSIVE Gcd(_, _)
Gcd(a, b) == IF b = 0 THEN a ELSE Gcd(b, a % b)

Norm(n, d) ==
  IF d = 0 THEN <<Sign(n), 0>>
  ELSE LET g == Gcd(Abs(n), Abs(d))
       IN  <<(Sign(d) * n) \div g, Abs(d) \div g>>

Rat(n) == <<n, 1>>
Inf == <<1, 0>>
NaN == <<0, 0>>

\* The element of a one-element set.  {e(a) : a \in {x}} evaluates x once,
\* however often e uses it.
The(S) == CHOOSE r \in S : TRUE

RatNeg(x) == The({<<0 - a[1], a[2]>> : a \in {x}})
RatSub(x, y) ==
  The({IF a = NaN \/ b = NaN THEN NaN
       ELSE IF a[2] = 0 /\ b[2] = 0 THEN (IF a = b THEN NaN ELSE a)
       ELSE IF a[2] = 0 THEN a
       ELSE IF b[2] = 0 THEN <<0 - b[1], b[2]>>
       ELSE Norm(a[1] * b[2] - b[1] * a[2], a[2] * b[2]) : a \in {x}, b \in {y}})
RatMul(x, y) == The({Norm(a[1] * b[1], a[2] * b[2]) : a \in {x}, b \in {y}})
\* Defined for y other than zero; callers raise ZeroDivisionError first.
RatDiv(x, y) ==
  The({IF a[2] = 0 /\ b[2] = 0 THEN NaN
       ELSE Norm(Sign(b[1]) * a[1] * b[2], a[2] * Abs(b[1])) : a \in {x}, b \in {y}})
\* x == 0.0, of either sign.
RatZero(x) == x[1] = 0 /\ x[2] # 0
\* Placeholder for a float local that holds no value yet.
NoRat == <<0, -1>>

RECURSIVE Pow10(_)
Pow10(k) == IF k = 0 THEN 1 ELSE 10 * Pow10(k - 1)

Lower(c) ==
  CASE c = "I" -> "i" [] c = "N" -> "n" [] c = "F" -> "f" [] c = "T" -> "t"
    [] c = "Y" -> "y" [] c = "A" -> "a" [] c = "E" -> "e" [] OTHER -> c

\* Index of the first element of s in set cs, 0 when there is none.
RECURSIVE FirstIn(_, _, _)
FirstIn(s, cs, i) ==
  IF i > Len(s) THEN 0 ELSE IF s[i] \in cs THEN i ELSE FirstIn(s, cs, i + 1)

\* The decimal literal of float(): digits with an optional point, then an
\* optional exponent after the mark at index e (0 when there is none).
DecimalValue(body, e) ==
  LET mant == IF e = 0 THEN body ELSE SubSeq(body, 1, e - 1)
      expo == IF e = 0 THEN <<>> ELSE SubSeq(body, e + 1, Len(body))
      esigned == expo # <<>> /\ expo[1] \in {"-", "+"}
      edigits == IF esigned THEN Tail(expo) ELSE expo
      egood == e = 0 \/ (edigits # <<>> /\ AllDigits(edigits))
      evalue == IF e = 0 \/ ~egood THEN 0
                ELSE IF esigned /\ expo[1] = "-" THEN 0 - DigitsValue(edigits, 0)
                ELSE DigitsValue(edigits, 0)
      p == FirstIn(mant, {"."}, 1)
      whole == IF p = 0 THEN mant ELSE SubSeq(mant, 1, p - 1)
      frac == IF p = 0 THEN <<>> ELSE SubSeq(mant, p + 1, Len(mant))
      mgood == /\ AllDigits(whole) /\ AllDigits(frac)
               /\ Len(whole) + Len(frac) > 0
      scale == evalue - Len(frac)
      digits == DigitsValue(whole \o frac, 0)
  IN  IF ~(mgood /\ egood) THEN [ok |-> FALSE, val |-> NaN]
      ELSE [ok |-> TRUE,
            val |-> IF scale >= 0 THEN Rat(digits * Pow10(scale))
                    ELSE Norm(digits, Pow10(0 - scale))]

\* float() of text without surrounding whitespace.
StrippedFloat(t) ==
  LET signed == t # <<>> /\ t[1] \in {"-", "+"}
      neg == signed /\ t[1] = "-"
      body == [k \in 1..(IF signed THEN Len(t) - 1 ELSE Len(t)) |->
                 Lower(t[IF signed THEN k + 1 ELSE k])]
  IN  IF body \in {<<"i","n","f">>, <<"i","n","f","i","n","i","t","y">>}
      THEN [ok |-> TRUE, val |-> IF neg THEN <<-1, 0>> ELSE Inf]
      ELSE IF body = <<"n","a","n">> THEN [ok |-> TRUE, val |-> NaN]
      ELSE The({[ok |-> d.ok, val |-> IF neg THEN <<0 - d.val[1], d.val[2]>> ELSE d.val] :
                  d \in {DecimalValue(body, FirstIn(body, {"e"}, 1))}})

\* float(text) of Python 2.7: surrounding whitespace ignored, optional
\* sign, then inf, infinity or nan in any case, or decimal digits with an
\* optional point and an optional exponent; nothing else.
\* ok = FALSE stands for ValueError.
ParseFloat(text) == The({StrippedFloat(t) : t \in {Strip(text)}})

\* ------------------------------------------------- results and errors
Ok(v) == [ok |-> TRUE, val |-> v, err |-> "none"]
Raise(e) == [ok |-> FALSE, val |-> <<>>, err |-> e]
\* A list local that holds no value.
Unset == [ok |-> FALSE, val |-> <<>>, err |-> "unset"]

\* ------------------------------------------------------- CPU pipeline
\* GetCPUData on the first line of the CPU counter source.
GetCPUData(line) ==
  LET cpu_usage == Slice(SplitSpace(line), 2, 6)
      parsed == [k \in 1..Len(cpu_usage) |-> ParseInt(cpu_usage[k])]
  IN  IF \E k \in 1..Len(cpu_usage) : ~parsed[k].ok
      THEN Raise("ValueError")
      ELSE Ok([k \in 1..Len(cpu_usage) |-> parsed[k].val])

\* second_sample after the loop of GetCPUDelta has run as far as it gets,
\* every difference clamped at zero.
GetCPUDelta_Clamped(first_sample, second_sample) ==
  LET done == IF Len(first_sample) < Len(second_sample)
              THEN Len(first_sample) ELSE Len(second_sample)
      after == [i \in 1..Len(second_sample) |->
                  IF i <= done
                  THEN (IF second_sample[i] < first_sample[i] THEN 0
                        ELSE second_sample[i] - first_sample[i])
                  ELSE second_sample[i]]
  IN  [ok |-> Len(first_sample) <= Len(second_sample), val |-> after,
       err |-> IF Len(first_sample) <= Len(second_sample) THEN "none"
               ELSE "IndexError"]

\* The loop of GetCPUDelta: second_sample[i] -= first_sample[i] for every
\* index of first_sample, in place.  val is second_sample when the loop
\* ends: by running out of indices, or by the IndexError of the first
\* index second_sample does not have.
GetCPUDelta(first_sample, second_sample) ==
  LET done == IF Len(first_sample) < Len(second_sample)
              THEN Len(first_sample) ELSE Len(second_sample)
      after == [i \in 1..Len(second_sample) |->
                  IF i <= done THEN second_sample[i] - first_sample[i]
                  ELSE second_sample[i]]
  IN  [ok |-> Len(first_sample) <= Len(second_sample), val |-> after,
       err |-> IF Len(first_sample) <= Len(second_sample) THEN "none"
               ELSE "IndexError"]

RECURSIVE SumSeq(_)
SumSeq(s) == IF s = <<>> THEN 0 ELSE s[1] + SumSeq(Tail(s))

\* GetCPUStats returning the idle share instead of 100 minus it.
CPUPercentage_Idle(cpu_delta) ==
  IF cpu_delta = <<>> THEN Raise("IndexError")
  ELSE IF SumSeq(cpu_delta) = 0 THEN Raise("ZeroDivisionError")
  ELSE Ok(RatDiv(RatMul(Rat(cpu_delta[Len(cpu_delta)]), Rat(100)),
                 Rat(SumSeq(cpu_delta))))

\* GetCPUStats reporting 0 for a delta that sums to zero.
CPUPercentage_ZeroGuard(cpu_delta) ==
  IF cpu_delta = <<>> THEN Raise("IndexError")
  ELSE IF SumSeq(cpu_delta) = 0 THEN Ok(Rat(0))
  ELSE Ok(RatSub(Rat(100),
                 RatDiv(RatMul(Rat(cpu_delta[Len(cpu_delta)]), Rat(100)),
                        Rat(SumSeq(cpu_delta)))))

\* The percentage expression of GetCPUStats.
CPUPercentage(cpu_delta) ==
  IF cpu_delta = <<>> THEN Raise("IndexError")
  ELSE IF SumSeq(cpu_delta) = 0 THEN Raise("ZeroDivisionError")
  ELSE Ok(RatSub(Rat(100),
                 RatDiv(RatMul(Rat(cpu_delta[Len(cpu_delta)]), Rat(100)),
                        Rat(SumSeq(cpu_delta)))))

\* ------------------------------------------------------ disk pipeline
\* CalculateIOBandwidth without the milliseconds-to-seconds division.
CalculateIOBandwidth_MsAsSeconds(io_fields) ==
  IF Len(io_fields) < 11 THEN Raise("IndexError")
  ELSE
    LET sectors_read == ParseFloat(io_fields[6])
        reading_milliseconds == ParseFloat(io_fields[7])
        sectors_wrote == ParseFloat(io_fields[10])
        writing_milliseconds == ParseFloat(io_fields[11])
    IN  IF ~(sectors_read.ok /\ sectors_wrote.ok
             /\ reading_milliseconds.ok /\ writing_milliseconds.ok)
        THEN Raise("ValueError")
        ELSE
          LET kb_sectors_read ==
                RatDiv(RatMul(sectors_read.val, Rat(512)), Rat(128))
              kb_sectors_wrote ==
                RatDiv(RatMul(sectors_wrote.val, Rat(512)), Rat(128))
              reading_seconds == reading_milliseconds.val
              writing_seconds == writing_milliseconds.val
          IN  IF RatZero(reading_seconds) \/ RatZero(writing_seconds)
              THEN Raise("ZeroDivisionError")
              ELSE Ok(<<RatMul(RatDiv(Rat(1), reading_seconds), kb_sectors_read),
                        RatMul(RatDiv(Rat(1), writing_seconds), kb_sectors_wrote)>>)

\* CalculateIOBandwidth yielding rate 0 where the milliseconds are zero.
CalculateIOBandwidth_ZeroGuard(io_fields) ==
  IF Len(io_fields) < 11 THEN Raise("IndexError")
  ELSE
    LET sectors_read == ParseFloat(io_fields[6])
        reading_milliseconds == ParseFloat(io_fields[7])
        sectors_wrote == ParseFloat(io_fields[10])
        writing_milliseconds == ParseFloat(io_fields[11])
    IN  IF ~(sectors_read.ok /\ sectors_wrote.ok
             /\ reading_milliseconds.ok /\ writing_milliseconds.ok)
        THEN Raise("ValueError")
        ELSE
          LET kb_sectors_read ==
                RatDiv(RatMul(sectors_read.val, Rat(512)), Rat(128))
              kb_sectors_wrote ==
                RatDiv(RatMul(sectors_wrote.val, Rat(512)), Rat(128))
              reading_seconds == RatDiv(reading_milliseconds.val, Rat(1000))
              writing_seconds == RatDiv(writing_milliseconds.val, Rat(1000))
          IN  Ok(<<IF RatZero(reading_seconds) THEN Rat(0)
                   ELSE RatMul(RatDiv(Rat(1), reading_seconds), kb_sectors_read),
                   IF RatZero(writing_seconds) THEN Rat(0)
                   ELSE RatMul(RatDiv(Rat(1), writing_seconds), kb_sectors_wrote)>>)

\* CalculateIOBandwidth on the whitespace-separated fields of one row.
CalculateIOBandwidth(io_fields) ==
  IF Len(io_fields) < 11 THEN Raise("IndexError")
  ELSE
    LET sectors_read == ParseFloat(io_fields[6])
        reading_milliseconds == ParseFloat(io_fields[7])
        sectors_wrote == ParseFloat(io_fields[10])
        writing_milliseconds == ParseFloat(io_fields[11])
    IN  IF ~(sectors_read.ok /\ sectors_wrote.ok
             /\ reading_milliseconds.ok /\ writing_milliseconds.ok)
        THEN Raise("ValueError")
        ELSE
          LET kb_sectors_read ==
                RatDiv(RatMul(sectors_read.val, Rat(512)), Rat(128))
              kb_sectors_wrote ==
                RatDiv(RatMul(sectors_wrote.val, Rat(512)), Rat(128))
              reading_seconds == RatDiv(reading_milliseconds.val, Rat(1000))
              writing_seconds == RatDiv(writing_milliseconds.val, Rat(1000))
          IN  IF RatZero(reading_seconds) \/ RatZero(writing_seconds)
              THEN Raise("ZeroDivisionError")
              ELSE Ok(<<RatMul(RatDiv(Rat(1), reading_seconds), kb_sectors_read),
                        RatMul(RatDiv(Rat(1), writing_seconds), kb_sectors_wrote)>>)

RECURSIVE GetIODataFrom(_, _, _)
GetIODataFrom(lines, i, io_bandwidth) ==
  IF i > Len(lines)
  THEN (IF io_bandwidth.err = "unset" THEN Raise("UnboundLocalError")
        ELSE io_bandwidth)
  ELSE LET io_fields == SplitFields(lines[i])
       IN  IF Len(io_fields) < 3 THEN Raise("IndexError")
           ELSE IF io_fields[3] \notin DISKS_TO_MONITOR
                THEN GetIODataFrom(lines, i + 1, io_bandwidth)
           ELSE LET r == CalculateIOBandwidth(io_fields)
                IN  IF r.ok THEN GetIODataFrom(lines, i + 1, r) ELSE r

\* GetIOData with io_bandwidth set to zero rates before the loop.
GetIOData_DefaultZero(lines) == GetIODataFrom(lines, 1, Ok(<<Rat(0), Rat(0)>>))

\* GetIOData on the lines of the disk counter source.
GetIOData(lines) == GetIODataFrom(lines, 1, Unset)

\* The loop of GetIODelta, as that of GetCPUDelta.
GetIODelta(first_sample, second_sample) ==
  LET done == IF Len(first_sample) < Len(second_sample)
              THEN Len(first_sample) ELSE Len(second_sample)
      after == [i \in 1..Len(second_sample) |->
                  IF i <= done THEN RatSub(second_sample[i], first_sample[i])
                  ELSE second_sample[i]]
  IN  [ok |-> Len(first_sample) <= Len(second_sample), val |-> after,
       err |-> IF Len(first_sample) <= Len(second_sample) THEN "none"
               ELSE "IndexError"]

\* What one read of each counter source returns, per possible content.
CpuReads == [k \in 1..Len(CpuLines) |-> GetCPUData(CpuLines[k])]
IoReads == [k \in 1..Len(DiskBlobs) |-> GetIOData(DiskBlobs[k])]

\* ------------------------------------------------------------- clock
\* int('%.0f' % time.time()): the clock reading rounded to the nearest
\* whole second, ties to the even second.
RoundClock(t) ==
  LET q == t \div TicksPerSec
      r == t % TicksPerSec
  IN  IF 2 * r < TicksPerSec THEN q
      ELSE IF 2 * r > TicksPerSec THEN q + 1
      ELSE IF q % 2 = 0 THEN q ELSE q + 1

\* The while loop of Start with a strict comparison.
LoopCondition_Strict(td) == td < RUN_TIME

\* The condition of the while loop of Start.
LoopCondition(td) == td <= RUN_TIME

\* GetCPUDelta sleeping after its read instead of before it.
NextPc_SleepAfterRead(p) ==
  CASE p = "start"      -> "loop"
    [] p = "cpu_read1"  -> "cpu_read2"
    [] p = "cpu_sleep"  -> "cpu_delta"
    [] p = "cpu_read2"  -> "cpu_sleep"
    [] p = "cpu_delta"  -> "cpu_pct"
    [] p = "cpu_pct"    -> "io_read1"
    [] p = "io_read1"   -> "io_sleep"
    [] p = "io_sleep"   -> "io_read2"
    [] p = "io_read2"   -> "io_delta"
    [] p = "io_delta"   -> "io_return"
    [] p = "io_return"  -> "print"
    [] p = "print"      -> "loop_sleep"
    [] p = "loop_sleep" -> "time_update"
    [] p = "time_update" -> "loop"
    [] p = "stop"       -> "exited"

\* Statement order of Start, GetStatistics, GetCPUStats/GetCPUDelta and
\* GetIOReadStats/GetIODelta: the position reached after position p
\* completes without an exception.
NextPc(p) ==
  CASE p = "start"      -> "loop"
    [] p = "cpu_read1"  -> "cpu_sleep"
    [] p = "cpu_sleep"  -> "cpu_read2"
    [] p = "cpu_read2"  -> "cpu_delta"
    [] p = "cpu_delta"  -> "cpu_pct"
    [] p = "cpu_pct"    -> "io_read1"
    [] p = "io_read1"   -> "io_sleep"
    [] p = "io_sleep"   -> "io_read2"
    [] p = "io_read2"   -> "io_delta"
    [] p = "io_delta"   -> "io_return"
    [] p = "io_return"  -> "print"
    [] p = "print"      -> "loop_sleep"
    [] p = "loop_sleep" -> "time_update"
    [] p = "time_update" -> "loop"
    [] p = "stop"       -> "exited"


\* ------------------------------------------------------------- state
VARIABLES
  pc,          \* position of the single thread of control
  now,         \* clock, in ticks
  start_time,  \* Start: whole second at which monitoring started
  time_delta,  \* Start: whole seconds elapsed since start_time
  cpu_first,   \* GetCPUStats/GetCPUDelta: first_sample
  cpu_second,  \* GetCPUDelta: second_sample, turned into the delta in place
  io_first,    \* GetIOReadStats/GetIODelta: first_sample
  io_second,   \* GetIODelta: second_sample, turned into the delta in place
  io_src,      \* indices in DiskBlobs of the contents read by this tick
  stats_cpu,   \* GetStatistics: cpu
  cpu,         \* Start: cpu
  ior,         \* Start: ior
  iow,         \* Start: iow
  events,      \* reads, sleeps and prints of the current tick, in order
  err,         \* the uncaught exception, "none" while there is none
  exit_status  \* process exit status, -1 while running

vars == <<pc, now, start_time, time_delta, cpu_first, cpu_second, io_first,
          io_second, io_src, stats_cpu, cpu, ior, iow, events, err,
          exit_status>>

Event(e, n) == [ev |-> e, n |-> n]

Init ==
  /\ pc = "start"
  /\ now \in 0..MaxStart
  /\ start_time = 0
  /\ time_delta = 0
  /\ cpu_first = Unset
  /\ cpu_second = Unset
  /\ io_first = Unset
  /\ io_second = Unset
  /\ io_src = <<0, 0>>
  /\ stats_cpu = NoRat
  /\ cpu = NoRat
  /\ ior = NoRat
  /\ iow = NoRat
  /\ events = <<>>
  /\ err = "none"
  /\ exit_status = -1

\* An exception nobody catches: the interpreter prints the traceback and
\* the process ends with status 1.
Crash(e) ==
  /\ pc' = "crashed"
  /\ err' = e
  /\ exit_status' = 1

Continue ==
  /\ pc' = NextPc(pc)
  /\ UNCHANGED <<err, exit_status>>

\* Start, lines 39-40.
StartInit ==
  /\ pc = "start"
  /\ start_time' = RoundClock(now)
  /\ time_delta' = 0
  /\ Continue
  /\ UNCHANGED <<now, cpu_first, cpu_second, io_first, io_second, io_src,
                 stats_cpu, cpu, ior, iow, events>>

\* Start, line 41: the while test; a true test enters GetStatistics.
LoopTest ==
  /\ pc = "loop"
  /\ pc' = IF LoopCondition(time_delta) THEN "cpu_read1" ELSE "stop"
  /\ UNCHANGED <<now, start_time, time_delta, cpu_first, cpu_second,
                 io_first, io_second, io_src, stats_cpu, cpu, ior, iow,
                 events, err, exit_status>>

\* GetCPUStats, line 73: the argument self.GetCPUData().
CPURead1 ==
  /\ pc = "cpu_read1"
  /\ \E k \in 1..Len(CpuLines) :
       LET r == CpuReads[k]
       IN  IF r.ok
           THEN /\ cpu_first' = r
                /\ events' = <<Event("cpu_read", 1)>>
                /\ Continue
           ELSE /\ Crash(r.err)
                /\ events' = <<>>
                /\ UNCHANGED cpu_first
  /\ UNCHANGED <<now, start_time, time_delta, cpu_second, io_first,
                 io_second, io_src, stats_cpu, cpu, ior, iow>>

\* GetCPUDelta, line 101.
CPUSleep ==
  /\ pc = "cpu_sleep"
  /\ \E j \in 0..MaxJitter : now' = now + SAMPLE_INTERVAL * TicksPerSec + j
  /\ events' = Append(events, Event("sleep", SAMPLE_INTERVAL))
  /\ Continue
  /\ UNCHANGED <<start_time, time_delta, cpu_first, cpu_second, io_first,
                 io_second, io_src, stats_cpu, cpu, ior, iow>>

\* GetCPUDelta, line 102.
CPURead2 ==
  /\ pc = "cpu_read2"
  /\ \E k \in 1..Len(CpuLines) :
       LET r == CpuReads[k]
       IN  IF r.ok
           THEN /\ cpu_second' = r
                /\ events' = Append(events, Event("cpu_read", 2))
                /\ Continue
           ELSE /\ Crash(r.err)
                /\ UNCHANGED <<cpu_second, events>>
  /\ UNCHANGED <<now, start_time, time_delta, cpu_first, io_first,
                 io_second, io_src, stats_cpu, cpu, ior, iow>>

\* GetCPUDelta, lines 103-106.  The loop subtracts in place, so an
\* IndexError leaves second_sample with the differences made before it.
CPUDelta ==
  /\ pc = "cpu_delta"
  /\ LET r == GetCPUDelta(cpu_first.val, cpu_second.val)
     IN  /\ cpu_second' = Ok(r.val)
         /\ IF r.ok THEN Continue ELSE Crash(r.err)
  /\ UNCHANGED <<now, start_time, time_delta, cpu_first, io_first,
                 io_second, io_src, stats_cpu, cpu, ior, iow, events>>

\* GetCPUStats, lines 74-76, and GetStatistics, line 61.  The locals of
\* GetCPUStats end with its return.
CPUDerive ==
  /\ pc = "cpu_pct"
  /\ LET r == CPUPercentage(cpu_second.val)
     IN  IF r.ok
         THEN /\ stats_cpu' = r.val
              /\ cpu_first' = Unset
              /\ cpu_second' = Unset
              /\ Continue
         ELSE /\ Crash(r.err)
              /\ UNCHANGED <<stats_cpu, cpu_first, cpu_second>>
  /\ UNCHANGED <<now, start_time, time_delta, io_first, io_second, io_src,
                 cpu, ior, iow, events>>

\* GetIOReadStats, line 114: the argument self.GetIOData().
IORead1 ==
  /\ pc = "io_read1"
  /\ \E k \in 1..Len(DiskBlobs) :
       LET r == IoReads[k]
       IN  /\ io_src' = <<k, 0>>
           /\ IF r.ok
              THEN /\ io_first' = r
                   /\ events' = Append(events, Event("io_read", 1))
                   /\ Continue
              ELSE /\ Crash(r.err)
                   /\ UNCHANGED <<io_first, events>>
  /\ UNCHANGED <<now, start_time, time_delta, cpu_first, cpu_second,
                 io_second, stats_cpu, cpu, ior, iow>>

\* GetIODelta, line 177.
IOSleep ==
  /\ pc = "io_sleep"
  /\ \E j \in 0..MaxJitter : now' = now + SAMPLE_INTERVAL * TicksPerSec + j
  /\ events' = Append(events, Event("sleep", SAMPLE_INTERVAL))
  /\ Continue
  /\ UNCHANGED <<start_time, time_delta, cpu_first, cpu_second, io_first,
                 io_second, io_src, stats_cpu, cpu, ior, iow>>

\* GetIODelta, line 178.
IORead2 ==
  /\ pc = "io_read2"
  /\ \E k \in 1..Len(DiskBlobs) :
       LET r == IoReads[k]
       IN  /\ io_src' = <<io_src[1], k>>
           /\ IF r.ok
              THEN /\ io_second' = r
                   /\ events' = Append(events, Event("io_read", 2))
                   /\ Continue
              ELSE /\ Crash(r.err)
                   /\ UNCHANGED <<io_second, events>>
  /\ UNCHANGED <<now, start_time, time_delta, cpu_first, cpu_second,
                 io_first, stats_cpu, cpu, ior, iow>>

\* GetIODelta, lines 179-182.
IODelta ==
  /\ pc = "io_delta"
  /\ LET r == GetIODelta(io_first.val, io_second.val)
     IN  /\ io_second' = Ok(r.val)
         /\ IF r.ok THEN Continue ELSE Crash(r.err)
  /\ UNCHANGED <<now, start_time, time_delta, cpu_first, cpu_second,
                 io_first, io_src, stats_cpu, cpu, ior, iow, events>>

\* GetIOReadStats, line 115, GetStatistics, lines 62-63, and the
\* assignment of Start, line 42.  The locals of GetIOReadStats and of
\* GetStatistics end with their return.
IOReturn ==
  /\ pc = "io_return"
  /\ IF Len(io_second.val) < 2
     THEN /\ Crash("IndexError")
          /\ UNCHANGED <<io_first, io_second, stats_cpu, cpu, ior, iow>>
     ELSE /\ cpu' = stats_cpu
          /\ ior' = io_second.val[1]
          /\ iow' = io_second.val[2]
          /\ stats_cpu' = NoRat
          /\ io_first' = Unset
          /\ io_second' = Unset
          /\ Continue
  /\ UNCHANGED <<now, start_time, time_delta, cpu_first, cpu_second,
                 io_src, events>>

\* Start, line 43.  cpu, ior and iow keep their values until line 42
\* assigns them anew.
PrintLine ==
  /\ pc = "print"
  /\ events' = Append(events, Event("print", 1))
  /\ io_src' = <<0, 0>>
  /\ Continue
  /\ UNCHANGED <<now, start_time, time_delta, cpu_first, cpu_second,
                 io_first, io_second, stats_cpu, cpu, ior, iow>>

\* Start, line 44.
LoopSleep ==
  /\ pc = "loop_sleep"
  /\ \E j \in 0..MaxJitter : now' = now + LOOP_SLEEP * TicksPerSec + j
  /\ events' = Append(events, Event("sleep", LOOP_SLEEP))
  /\ Continue
  /\ UNCHANGED <<start_time, time_delta, cpu_first, cpu_second, io_first,
                 io_second, io_src, stats_cpu, cpu, ior, iow>>

\* Start, line 45.
TimeUpdate ==
  /\ pc = "time_update"
  /\ time_delta' = RoundClock(now) - start_time
  /\ Continue
  /\ UNCHANGED <<now, start_time, cpu_first, cpu_second, io_first,
                 io_second, io_src, stats_cpu, cpu, ior, iow, events>>

\* Start, line 47, and Stop: exit() raises SystemExit with no code.
Stop ==
  /\ pc = "stop"
  /\ pc' = NextPc(pc)
  /\ exit_status' = 0
  /\ UNCHANGED <<now, start_time, time_delta, cpu_first, cpu_second,
                 io_first, io_second, io_src, stats_cpu, cpu, ior, iow,
                 events, err>>

Next ==
  \/ StartInit
  \/ LoopTest
  \/ CPURead1
  \/ CPUSleep
  \/ CPURead2
  \/ CPUDelta
  \/ CPUDerive
  \/ IORead1
  \/ IOSleep
  \/ IORead2
  \/ IODelta
  \/ IOReturn
  \/ PrintLine
  \/ LoopSleep
  \/ TimeUpdate
  \/ Stop

Spec == Init /\ [][Next]_vars

Positions ==
  {"start", "loop", "cpu_read1", "cpu_sleep", "cpu_read2", "cpu_delta",
   "cpu_pct", "io_read1", "io_sleep", "io_read2", "io_delta", "io_return",
   "print", "loop_sleep", "time_update", "stop", "exited", "crashed"}

\* The single thread of control takes its next step whenever the process
\* is still running.  Every position other than "exited" and "crashed" has
\* an enabled step of Next, and every step of Next moves pc, so weak
\* fairness of Progress is weak fairness of Next.
Progress ==
  /\ pc \notin {"exited", "crashed"}
  /\ pc' \in Positions
  /\ pc' # pc

FairSpec == Spec /\ WF_pc(Progress)

\* ------------------------------------------------------------- claims

\* C1: under the fairness of the single thread, a run in which no tick
\* fails ends exited with status 0; it exits only with more than RUN_TIME
\* elapsed whole seconds; at the loop test time_delta is the rounded clock
\* minus start_time, a tick is begun when it is <= RUN_TIME (RUN_TIME
\* included) and the loop is left when it is > RUN_TIME; no tick is begun
\* from anywhere with time_delta > RUN_TIME.
C1_RunLoopTermination ==
  /\ <>(pc = "crashed" \/ (pc = "exited" /\ exit_status = 0))
  /\ [](pc = "exited" => (time_delta > RUN_TIME /\ exit_status = 0))
  /\ [](pc = "loop" => time_delta = RoundClock(now) - start_time)
  /\ [][pc = "loop" =>
          IF time_delta <= RUN_TIME THEN pc' = "cpu_read1" ELSE pc' = "stop"]_vars
  /\ [][(pc # "cpu_read1" /\ pc' = "cpu_read1") => time_delta <= RUN_TIME]_vars

C1_Witness ==
  pc = "exited" /\ exit_status = 0 /\ time_delta > RUN_TIME /\ err = "none"

\* The reads, sleeps and print of one tick, in the order of the claim,
\* followed by the sleep of the run loop.
TickOrder ==
  <<Event("cpu_read", 1), Event("sleep", SAMPLE_INTERVAL), Event("cpu_read", 2),
    Event("io_read", 1), Event("sleep", SAMPLE_INTERVAL), Event("io_read", 2),
    Event("print", 1)>>

IsPrefix(s, t) == Len(s) <= Len(t) /\ SubSeq(t, 1, Len(s)) = s

\* C2: the events of a tick always form a prefix of: CPU read 1, sleep of
\* SAMPLE_INTERVAL, CPU read 2, disk read 1, sleep of SAMPLE_INTERVAL, disk
\* read 2, print (then the loop's own sleep); a disk read is logged only
\* after CPU read 2; once the line is printed the tick's events are exactly
\* that sequence, and a new tick starts only after exactly one print.
C2_TickOrder ==
  /\ [](IsPrefix(events, Append(TickOrder, Event("sleep", LOOP_SLEEP))))
  /\ [](pc = "loop_sleep" => events = TickOrder)
  /\ [][(pc = "cpu_read1" /\ pc' = "cpu_sleep" /\ events # <<>>) =>
          /\ SubSeq(events, 1, 7) = TickOrder
          /\ Cardinality({i \in 1..Len(events) : events[i].ev = "print"}) = 1
          /\ events' = <<Event("cpu_read", 1)>>]_vars

C2_Witness ==
  /\ pc = "cpu_sleep"
  /\ time_delta > 0
  /\ events = <<Event("cpu_read", 1)>>

\* x - y for ints as the claim writes it.
RatEq(r, n, d) == r[2] > 0 /\ d # 0 /\ r[1] * d = n * r[2]

\* C3: whenever the two samples have equal length N, the delta step
\* succeeds, the result has length N and result[i] = b[i] - a[i] for every
\* i, negative differences included; for the CPU delta and the I/O delta.
C3_DeltaElementwise ==
  /\ [][(pc = "cpu_delta" /\ Len(cpu_first.val) = Len(cpu_second.val)) =>
          /\ pc' = "cpu_pct"
          /\ Len(cpu_second'.val) = Len(cpu_second.val)
          /\ \A i \in 1..Len(cpu_second.val) :
               cpu_second'.val[i] = cpu_second.val[i] - cpu_first.val[i]]_vars
  /\ [][(pc = "io_delta" /\ Len(io_first.val) = Len(io_second.val)) =>
          /\ pc' = "io_return"
          /\ Len(io_second'.val) = Len(io_second.val)
          /\ \A i \in 1..Len(io_second.val) :
               LET a == io_first.val[i]
                   b == io_second.val[i]
               IN  RatEq(io_second'.val[i],
                         b[1] * a[2] - a[1] * b[2], a[2] * b[2])]_vars

C3_Witness ==
  /\ pc = "cpu_pct"
  /\ Len(cpu_first.val) = Len(cpu_second.val)
  /\ \E i \in 1..Len(cpu_second.val) : cpu_second.val[i] < 0

\* C4 (as claimed): the delta step fails whenever the two samples have
\* different lengths, in both directions.
C4_ShapeMismatchFails ==
  [][(pc = "cpu_delta" /\ Len(cpu_first.val) # Len(cpu_second.val)) =>
       (pc' = "crashed" /\ err' = "IndexError")]_vars

\* C5: for a 4-field CPU delta d with sum(d) # 0 the derivation succeeds
\* and busy_pct * sum(d) = 100 * (user + nice + system); delta
\* [10,0,0,90] gives 10 and snapshots [100,0,0,300], [110,0,0,320] give
\* 100/3.
C5_CPUPercentage ==
  [][(pc = "cpu_pct" /\ Len(cpu_second.val) = 4) =>
       LET d == cpu_second.val
           total == d[1] + d[2] + d[3] + d[4]
       IN  total # 0 =>
             /\ pc' = "io_read1"
             /\ RatEq(stats_cpu', 100 * (d[1] + d[2] + d[3]), total)
             /\ (d = <<10, 0, 0, 90>> => stats_cpu' = <<10, 1>>)
             /\ (cpu_first.val = <<100, 0, 0, 300>> /\ d = <<10, 0, 0, 20>>
                   => stats_cpu' = <<100, 3>>)]_vars

C5_Witness == pc = "io_read1" /\ stats_cpu = <<100, 3>>

\* The rows of a disk counter source that GetIOData selects: the indices
\* of the lines whose field 2 is a monitored disk.
MatchingRows(lines) ==
  {i \in 1..Len(lines) :
     LET f == SplitFields(lines[i])
     IN  Len(f) >= 3 /\ f[3] \in DISKS_TO_MONITOR}

\* Every line has a field 2.
AllRowsNamed(lines) == \A i \in 1..Len(lines) : Len(SplitFields(lines[i])) >= 3

\* Field k (0-based, as the source indexes it) of line i, as a float.
FieldOf(lines, i, k) == ParseFloat(SplitFields(lines[i])[k + 1])

\* A row with the four counters present and numeric.
WellFormedRow(lines, i) ==
  /\ Len(SplitFields(lines[i])) >= 11
  /\ \A k \in {5, 6, 9, 10} : FieldOf(lines, i, k).ok

ZeroMsRow(lines, i) ==
  \/ Len(SplitFields(lines[i])) >= 7
       /\ FieldOf(lines, i, 6).ok /\ RatZero(FieldOf(lines, i, 6).val)
  \/ Len(SplitFields(lines[i])) >= 11
       /\ FieldOf(lines, i, 10).ok /\ RatZero(FieldOf(lines, i, 10).val)

\* The per-snapshot rate as the claim writes it:
\* (sectors * 512 / 128) / (ms / 1000).
RateOf(sectors, ms) ==
  RatDiv(RatDiv(RatMul(sectors, Rat(512)), Rat(128)),
         RatDiv(ms, Rat(1000)))

\* The monitored row whose rates GetIOData returns: the last one.
TheRow(lines) ==
  CHOOSE i \in MatchingRows(lines) : \A j \in MatchingRows(lines) : j <= i

ReadRateOf(lines) ==
  RateOf(FieldOf(lines, TheRow(lines), 5).val, FieldOf(lines, TheRow(lines), 6).val)

WriteRateOf(lines) ==
  RateOf(FieldOf(lines, TheRow(lines), 9).val, FieldOf(lines, TheRow(lines), 10).val)

\* Per content of the disk counter source: what the claims ask of it.
HasMonitoredZeroMsRow ==
  [k \in 1..Len(DiskBlobs) |->
     \E i \in MatchingRows(DiskBlobs[k]) : ZeroMsRow(DiskBlobs[k], i)]

NoMonitoredRow == [k \in 1..Len(DiskBlobs) |-> MatchingRows(DiskBlobs[k]) = {}]

OneMonitoredRow ==
  [k \in 1..Len(DiskBlobs) |-> Cardinality(MatchingRows(DiskBlobs[k])) = 1]

RowsNamed == [k \in 1..Len(DiskBlobs) |-> AllRowsNamed(DiskBlobs[k])]

MonitoredRowsWellFormed ==
  [k \in 1..Len(DiskBlobs) |->
     \A i \in MatchingRows(DiskBlobs[k]) : WellFormedRow(DiskBlobs[k], i)]

\* Sources with at least one monitored row, every line with a field 2,
\* every monitored row well formed with non-zero milliseconds.
GoodRows ==
  [k \in 1..Len(DiskBlobs) |->
     /\ ~NoMonitoredRow[k]
     /\ RowsNamed[k]
     /\ MonitoredRowsWellFormed[k]
     /\ ~HasMonitoredZeroMsRow[k]]

\* The same with exactly one monitored row.
OneGoodRow == [k \in 1..Len(DiskBlobs) |-> GoodRows[k] /\ OneMonitoredRow[k]]

RowRates ==
  [k \in 1..Len(DiskBlobs) |->
     IF GoodRows[k]
     THEN <<ReadRateOf(DiskBlobs[k]), WriteRateOf(DiskBlobs[k])>>
     ELSE <<NoRat, NoRat>>]

\* The sectors-read and milliseconds-reading counters of the selected
\* row.
RowReadCounters ==
  [k \in 1..Len(DiskBlobs) |->
     IF GoodRows[k]
     THEN <<FieldOf(DiskBlobs[k], TheRow(DiskBlobs[k]), 5).val,
            FieldOf(DiskBlobs[k], TheRow(DiskBlobs[k]), 6).val>>
     ELSE <<NoRat, NoRat>>]

\* The index in DiskBlobs of the content a disk read has just read, for a
\* step that leaves io_read1 or io_read2.
JustRead(p, src) == IF p = "io_read1" THEN src[1] ELSE src[2]

\* C6: the values handed to the print are the difference of the two
\* per-snapshot rates, each computed from fields 5, 6, 9, 10 of the
\* selected row of its own snapshot; sectors_read=256, ms_read=2000 is a
\* per-snapshot read rate of 512.
C6_DeltaOfRates ==
  /\ [][(pc = "io_return" /\ GoodRows[io_src[1]] /\ GoodRows[io_src[2]]) =>
          /\ pc' = "print"
          /\ ior' = RatSub(RowRates[io_src[2]][1], RowRates[io_src[1]][1])
          /\ iow' = RatSub(RowRates[io_src[2]][2], RowRates[io_src[1]][2])]_vars
  /\ [](pc = "io_sleep" /\ RowReadCounters[io_src[1]] = <<Rat(256), Rat(2000)>>
        => io_first.val[1] = <<512, 1>>)

\* Snapshot 1 has 256 sectors read in 2000 ms (rate 512), snapshot 2 has
\* 768 in 3000 ms (rate 1024): the difference of the rates is 512, the rate
\* of the differences would be 2048.
C6_Witness ==
  /\ pc = "print"
  /\ io_src = <<1, 2>>
  /\ ior = <<512, 1>>
  /\ iow = <<1024, 1>>

\* C7: a CPU delta with at least one field that sums to zero makes the
\* derivation fail with ZeroDivisionError and assign no percentage,
\* whether the fields are all zero or cancel.
C7_ZeroSumFails ==
  [][(pc = "cpu_pct" /\ cpu_second.val # <<>> /\ SumSeq(cpu_second.val) = 0) =>
       /\ pc' = "crashed"
       /\ err' = "ZeroDivisionError"
       /\ stats_cpu' = stats_cpu
       /\ cpu' = cpu]_vars

C7_Witness ==
  /\ pc = "crashed"
  /\ err = "ZeroDivisionError"
  /\ cpu_second.val = <<-5, 5, 0, 0>>
  /\ stats_cpu = NoRat

\* C8: a disk read over a source holding a monitored row with ms_read = 0
\* or ms_write = 0 raises and returns no snapshot; when every line has a
\* field 2 and every monitored row has its four counters, the exception is
\* ZeroDivisionError.
C8_ZeroMsFails ==
  [][(pc \in {"io_read1", "io_read2"}) =>
       LET k == JustRead(pc, io_src')
       IN  HasMonitoredZeroMsRow[k] =>
             /\ pc' = "crashed"
             /\ io_first' = io_first
             /\ io_second' = io_second
             /\ (RowsNamed[k] /\ MonitoredRowsWellFormed[k]
                   => err' = "ZeroDivisionError")]_vars

C8_Witness ==
  /\ pc = "crashed"
  /\ err = "ZeroDivisionError"
  /\ io_src = <<1, 6>>
  /\ io_second = Unset

\* C9: a disk read over a source with no monitored row raises and returns
\* no snapshot, with UnboundLocalError (the result was never assigned)
\* when every line has a field 2; over a source whose lines all have a
\* field 2 and whose one monitored row is well formed with non-zero
\* milliseconds, the read returns the two rates of that row.
C9_DiskRowSelection ==
  [][(pc \in {"io_read1", "io_read2"}) =>
       LET k == JustRead(pc, io_src')
           got == IF pc = "io_read1" THEN io_first' ELSE io_second'
       IN  /\ NoMonitoredRow[k] =>
                /\ pc' = "crashed"
                /\ io_first' = io_first
                /\ io_second' = io_second
                /\ (RowsNamed[k] => err' = "UnboundLocalError")
           /\ OneGoodRow[k] =>
                /\ pc' # "crashed"
                /\ got.ok
                /\ got.val = RowRates[k]]_vars

C9_Witness ==
  /\ pc = "crashed"
  /\ err = "UnboundLocalError"
  /\ io_src = <<1, 4>>
  /\ io_first.val = <<<<512, 1>>, <<512, 1>>>>
  /\ io_second = Unset

\* C10 (as claimed): a failure inside a tick does not end the run.
C10_FailedTickDoesNotAbort ==
  err # "none" => (pc # "crashed" /\ exit_status # 1)

====
